---- MODULE Spec2Model ----
(***************************************************************************)
(* A model of the RAG orchestrator of Voice-RAG-Chatbot                    *)
(* (src/src/rag_system.py, class RAGSystem) and of the handlers of         *)
(* src/app.py that drive it.                                               *)
(*                                                                         *)
(* The Chroma index is modelled by what the orchestrator does with it:     *)
(* a Chroma object is a handle (1..NumStores) on a collection; `store`     *)
(* gives the chunks a handle reads; `persist_dir` names the collection     *)
(* that lives in ./chroma_db (0: the directory does not exist).  A handle  *)
(* whose directory has been removed keeps reading what it had opened.      *)
(* Every call into the environment (file system, Chroma client, embedder,  *)
(* generator) that can raise has its outcome drawn as an input of the      *)
(* action.                                                                 *)
(*                                                                         *)
(* Five specifications share the state:                                    *)
(*   Spec          the public methods of one RAGSystem, called in any      *)
(*                 order;                                                  *)
(*   LoaderSpec    process_documents on files of every declared type;      *)
(*   AppSpec       the runs of main() of app.py: uploader, Clear button,   *)
(*                 initialize_systems, process_uploaded_files;             *)
(*   ChatSpec      the runs of main() that submit the form, click a voice  *)
(*                 button or rerun the listening loop;                     *)
(*   SessionsSpec  two browser sessions on the one ./chroma_db, with       *)
(*                 clear_knowledge_base in its two parts around the sleep. *)
(***************************************************************************)
EXTENDS Integers, Sequences, FiniteSets, TLC

\* ------------------------------------------------------------------ bounds
NumStores == 2      \* collection handles alive at once (unreferenced ones are reused)
MaxIndex  == 2      \* chunks a collection may hold in the model
MaxMessages == 4    \* messages the chat log may hold in the model

\* ------------------------------------------------------- program constants
RetrieverK == 3     \* search_kwargs={"k": 3}

None == 0           \* Python's None for a handle

\* ------------------------------------------------------------------ inputs
\* Uploaded files: a name and, through the splitter, the chunks its text yields.
\* c.exe stands for the types load_document does not know.
Files == {"a.txt", "b.pdf", "c.exe"}

\* uploaded_file.name.split('.')[-1].lower()
file_extension(f) ==
    CASE f = "a.txt" -> "txt"
      [] f = "b.pdf" -> "pdf"
      [] f = "d.doc" -> "doc"
      [] f = "e.docx" -> "docx"
      [] OTHER       -> "exe"

\* text_splitter.split_documents: the number of chunks of a file's text
\* (a.txt is longer than chunk_size, b.pdf is not).
SplitCount(f) ==
    CASE f = "a.txt" -> 2
      [] f = "b.pdf" -> 1
      [] f = "d.doc" -> 1
      [] f = "e.docx" -> 1
      [] OTHER       -> 0

\* What the file uploader of the sidebar is given in the runs of the script
\* (st.file_uploader takes type=['pdf', 'txt', 'docx'] only).
Uploads == {"b.pdf", "e.docx"}

\* The chunks a manually entered text yields: none for an empty text.
TextChunks == {0, 1}

ManualNames == {"Manual Entry"}
Sources     == Files \cup Uploads \cup ManualNames \cup {"d.doc"}
Chunk       == [source : Sources, seq : 1..2]

\* The chunks of one document, in document order, with metadata['source'] set.
ChunksOf(name, n) == [i \in 1..n |-> [source |-> name, seq |-> i]]

\* A whitespace-only question and one about a.txt.
Questions == {" ", "qa"}

\* question.strip()
strip(q) == IF q = " " THEN "" ELSE q

\* What a question is about: the source whose text is most similar to it.
Topic(q) ==
    CASE q = "qa" -> "a.txt"
      [] OTHER    -> "none"

RmOutcomes    == {"ok", "PermissionError", "OSError"}     \* shutil.rmtree
CallOutcomes  == {"ok", "raise"}
FreshOutcomes == {"ok", "rmtree_raises", "chroma_raises"} \* setup_fresh_vectorstore
\* Per file: the loader raises, or split_documents / add_documents raises (both
\* end in the except clause of the loop of process_documents).
FileOutcomes  == {"ok", "load_error", "index_error"}
\* The call of query_knowledge_base that raises, if one does.
QueryFaults   == {"none", "count", "retrieve", "generate"}

VARIABLES
    rag_system,      \* st.session_state.rag_system: "None" or "RAGSystem"
    embeddings,      \* self.embeddings is set
    vectorstore,     \* self.vectorstore: a handle, or None
    qa_chain,        \* the handle self.qa_chain's retriever was built on, or None
    documents,       \* self.documents
    store,           \* handle -> the chunks of its collection, in insertion order
    persist_dir,     \* the handle whose collection is in ./chroma_db, or None
    last,            \* what the last call returned and which collaborators it called
    uploaded_files,  \* the names the file uploader of the sidebar holds, in order
    processed_files, \* st.session_state.processed_files
    peer,            \* a second browser session of the same server process
    pc,              \* where this session's clear_knowledge_base stands
    messages,        \* st.session_state.messages, the chat log
    listening,       \* st.session_state.listening
    voice_handler,   \* st.session_state.voice_handler: "None" or "VoiceHandler"
    voice_enabled    \* st.session_state.voice_enabled

\* The chat and voice part of the session state.
chat_vars == <<messages, listening, voice_handler, voice_enabled>>

vars == <<rag_system, embeddings, vectorstore, qa_chain, documents, store,
          persist_dir, last, uploaded_files, processed_files, peer, pc,
          chat_vars>>

\* What a completed call of a method of this session's RAGSystem leaves
\* alone: the widgets and the session state of app.py, and the other session.
app_vars == <<uploaded_files, processed_files, peer, pc, chat_vars>>

Handles == 1..NumStores

NoCall ==
    [op |-> "none", ret |-> 0, q |-> "", fault |-> "none", answer |-> "",
     sources |-> <<>>,
     counted |-> FALSE, retrieved |-> FALSE, generated |-> FALSE,
     raised |-> FALSE, files |-> <<>>, good |-> <<>>, temp |-> 0,
     cleared |-> FALSE,
     click |-> "none", asked |-> <<>>, listened |-> FALSE, heard |-> ""]

\* The second session before its first script run: no orchestrator yet.
\* rag: it holds a RAGSystem; index: the chunks its vectorstore counts.
NoPeer == [rag |-> FALSE, index |-> <<>>]

\* persist_dir when ./chroma_db holds the collection of the second session
\* (every RAGSystem is built on the same default persist_directory).
PeerDir == -1

\* The chunks of the collection in ./chroma_db.
Persisted ==
    IF persist_dir \in Handles THEN store[persist_dir]
    ELSE IF persist_dir = PeerDir THEN peer.index
    ELSE <<>>

\* Collections no object and no directory refers to are dropped.
Collect(st, vs, qa, dir) ==
    [h \in Handles |-> IF h \in {vs, qa, dir} THEN st[h] ELSE <<>>]

\* The handle of a new Chroma object: the first one that the QA chain does
\* not hold (self.vectorstore is about to be overwritten with it).
FreeHandle(qa) ==
    CHOOSE h \in Handles : h # qa /\ \A g \in Handles : g # qa => h <= g

\* ------------------------------------------------------ the vector index
\* The index as the orchestrator holds it: vs is self.vectorstore, st the
\* collections, dir the collection in self.persist_directory.
World(vs, st, dir) == [vs |-> vs, st |-> st, dir |-> dir]

\* Chroma(persist_directory=..., embedding_function=...): opens the collection
\* of the directory when there is one, creates an empty one otherwise.  qa is
\* the handle the QA chain holds, which stays alive.
Chroma(W, qa) ==
    IF W.dir # None
    THEN [W EXCEPT !.vs = W.dir]
    ELSE LET h == FreeHandle(qa)
         IN  World(h, [W.st EXCEPT ![h] = <<>>], h)

\* The fresh start without the rmtree: the resume path of setup_vectorstore,
\* which opens whatever is persisted.
setup_fresh_vectorstore_resuming(W, qa, o) ==
    IF o = "chroma_raises"
    THEN [w |-> W, raised |-> TRUE]
    ELSE [w |-> Chroma(W, qa), raised |-> FALSE]

\* setup_fresh_vectorstore: rmtree of the directory if it exists, then a new
\* Chroma; any exception is reported and raised again.  o says which of the
\* two calls raises, if one does (there is no rmtree without a directory).
setup_fresh_vectorstore(W, qa, o) ==
    IF W.dir # None /\ o = "rmtree_raises"
    THEN [w |-> W, raised |-> TRUE]
    ELSE LET W1 == [W EXCEPT !.dir = None]
         IN  IF o = "chroma_raises"
             THEN [w |-> W1, raised |-> TRUE]
             ELSE [w |-> Chroma(W1, qa), raised |-> FALSE]

\* self.vectorstore._collection.count()
count(vs) == Len(store[vs])

\* The distinct metadata['source'] values of a list of chunks.
SourcesOf(docs) == {docs[i].source : i \in 1..Len(docs)}

\* get_knowledge_base_stats (count() not failing)
get_knowledge_base_stats ==
    IF vectorstore = None
    THEN [total_documents |-> 0, sources |-> {}]
    ELSE [total_documents |-> count(vectorstore), sources |-> SourcesOf(documents)]

\* ---------------------------------------------------------- construction
Init ==
    /\ rag_system = "None"
    /\ embeddings = FALSE
    /\ vectorstore = None
    /\ qa_chain = None
    /\ documents = <<>>
    /\ \E prior \in {<<>>, ChunksOf("a.txt", 1), ChunksOf("b.pdf", 1)},
          exists \in BOOLEAN :
          /\ persist_dir = (IF exists THEN 1 ELSE None)
          /\ store = [h \in Handles |-> IF exists /\ h = 1 THEN prior ELSE <<>>]
    /\ last = NoCall
    /\ uploaded_files = <<>>
    /\ processed_files = <<>>
    /\ peer = NoPeer
    /\ pc = "idle"
    /\ messages = <<>>
    /\ listening = FALSE
    /\ voice_handler = "None"
    /\ voice_enabled = FALSE

\* initialize_systems: RAGSystem(google_key) when the session holds none yet.
\* __init__: setup_embeddings, setup_fresh_vectorstore, setup_qa_chain; the
\* instance is kept only if none of them raises.
Construct ==
    /\ rag_system = "None"
    /\ \E emb \in CallOutcomes, fresh \in FreshOutcomes, qa \in CallOutcomes :
          LET W0 == World(None, store, persist_dir)
              r  == setup_fresh_vectorstore(W0, None, fresh)
              W  == IF emb = "ok" THEN r.w ELSE W0
              ok == emb = "ok" /\ ~r.raised /\ qa = "ok"
          IN  /\ persist_dir = None => fresh # "rmtree_raises"
              /\ rag_system' = (IF ok THEN "RAGSystem" ELSE "None")
              /\ embeddings' = ok
              /\ vectorstore' = (IF ok THEN W.vs ELSE None)
              /\ qa_chain' = (IF ok THEN W.vs ELSE None)
              /\ documents' = <<>>
              /\ persist_dir' = W.dir
              /\ store' = Collect(W.st, IF ok THEN W.vs ELSE None, None, W.dir)
              \* sources: the index found persisted at the path
              /\ last' = [NoCall EXCEPT !.op = "construct",
                                        !.ret = IF ok THEN 1 ELSE 0,
                                        !.sources = Persisted]
    /\ UNCHANGED app_vars

\* ------------------------------------------------------------- ingestion
Supported == {"pdf", "txt", "docx", "doc"}

\* load_document: the loader's documents, or [] when the type is unsupported
\* or the loader raises (the exception is caught inside load_document).
\* TRUE when the list is not empty.
load_document(f, o) == file_extension(f) \in Supported /\ o # "load_error"

\* vectorstore.add_documents(texts) raises when there is no vectorstore, when
\* the embedder or the index fails, and when texts is empty (Chroma rejects an
\* empty batch).
add_documents_raises(vs, n, o) == vs = None \/ n = 0 \/ o = "index_error"

\* The turn that indexes the chunks and forgets self.documents.extend(texts).
process_file_forgetting(S, vs, f, o) ==
    IF /\ load_document(f, o)
       /\ ~add_documents_raises(vs, SplitCount(f), o)
    THEN [st    |-> [S.st EXCEPT ![vs] = @ \o ChunksOf(f, SplitCount(f))],
          docs  |-> S.docs,
          count |-> S.count + 1,
          temp  |-> S.temp]
    ELSE IF load_document(f, o)
    THEN [S EXCEPT !.temp = @ + 1]
    ELSE S

\* The turn that indexes only the chunks the collection does not hold yet.
process_file_deduplicating(S, vs, f, o) ==
    IF /\ load_document(f, o)
       /\ ~add_documents_raises(vs, SplitCount(f), o)
    THEN LET new == SelectSeq(ChunksOf(f, SplitCount(f)),
                              LAMBDA c : \A i \in 1..Len(S.st[vs]) : S.st[vs][i] # c)
         IN  [st    |-> [S.st EXCEPT ![vs] = @ \o new],
              docs  |-> S.docs \o ChunksOf(f, SplitCount(f)),
              count |-> S.count + 1,
          temp  |-> S.temp]
    ELSE IF load_document(f, o)
    THEN [S EXCEPT !.temp = @ + 1]
    ELSE S

\* One turn of the loop of process_documents.  S holds the collections, the
\* bookkeeping, processed_count and temp, the number of temporary files the
\* call has written (NamedTemporaryFile(delete=False)) and not unlinked.
\* os.unlink(temp_file_path) is the last statement of the try block: it runs
\* when the file was indexed and when load_document returned [], and it is
\* skipped when split_documents or add_documents raised.
process_file(S, vs, f, o) ==
    IF /\ load_document(f, o)
       /\ ~add_documents_raises(vs, SplitCount(f), o)
    THEN [st    |-> [S.st EXCEPT ![vs] = @ \o ChunksOf(f, SplitCount(f))],
          docs  |-> S.docs \o ChunksOf(f, SplitCount(f)),
          count |-> S.count + 1,
          temp  |-> S.temp]
    ELSE IF load_document(f, o)
    THEN [S EXCEPT !.temp = @ + 1]
    ELSE S

\* The loop that gives up the batch at the first file that fails.
RECURSIVE process_loop_stopping(_, _, _, _)
process_loop_stopping(S, vs, files, outs) ==
    IF files = <<>>
    THEN S
    ELSE LET T == process_file(S, vs, Head(files), Head(outs))
         IN  IF T.count = S.count
             THEN S
             ELSE process_loop_stopping(T, vs, Tail(files), Tail(outs))

RECURSIVE process_loop(_, _, _, _)
process_loop(S, vs, files, outs) ==
    IF files = <<>>
    THEN S
    ELSE process_loop(process_file(S, vs, Head(files), Head(outs)), vs,
                      Tail(files), Tail(outs))

\* process_documents(uploaded_files)
process_documents(files, outs) ==
    process_loop([st |-> store, docs |-> documents, count |-> 0, temp |-> 0],
                 vectorstore, files, outs)

\* What the uploader hands over: some of the files, each once, in some order.
Batches ==
    {<<f>> : f \in Files} \cup {<<f, g>> : <<f, g>> \in {p \in Files \X Files : p[1] # p[2]}}

\* A call of process_documents with the files of one batch.
\* (S is bound with \E over a singleton: it is used more than once.)
ProcessBatch(files) ==
    /\ rag_system = "RAGSystem"
    /\ \E outs \in [1..Len(files) -> FileOutcomes] :
          \* no loader is called for a type load_document does not know
          /\ \A i \in 1..Len(files) :
                file_extension(files[i]) \notin Supported => outs[i] = "load_error"
          /\ \E S \in {process_documents(files, outs)} :
              /\ \A h \in Handles : Len(S.st[h]) <= MaxIndex
              /\ store' = S.st
              /\ documents' = S.docs
              /\ last' = [NoCall EXCEPT !.op = "process_documents",
                                        !.ret = S.count,
                                        !.temp = S.temp,
                                        !.files = files,
                                        !.good = [i \in 1..Len(files) |-> outs[i] = "ok"]]
    /\ UNCHANGED <<rag_system, embeddings, vectorstore, qa_chain,
                   persist_dir, app_vars>>

ProcessDocuments == \E files \in Batches : ProcessBatch(files)

\* The method with self.documents.extend(texts) ahead of add_documents(texts).
add_text_document_extending_first(name, n, o) ==
    IF add_documents_raises(vectorstore, n, o)
    THEN [st |-> store, docs |-> documents \o ChunksOf(name, n), ret |-> 0]
    ELSE [st   |-> [store EXCEPT ![vectorstore] = @ \o ChunksOf(name, n)],
          docs |-> documents \o ChunksOf(name, n),
          ret  |-> 1]

\* add_text_document(text_content, document_name): n is the number of chunks
\* the text yields; returns True (1) or, on any exception, False (0).
add_text_document(name, n, o) ==
    IF add_documents_raises(vectorstore, n, o)
    THEN [st |-> store, docs |-> documents, ret |-> 0]
    ELSE [st   |-> [store EXCEPT ![vectorstore] = @ \o ChunksOf(name, n)],
          docs |-> documents \o ChunksOf(name, n),
          ret  |-> 1]

AddTextDocument ==
    /\ rag_system = "RAGSystem"
    /\ \E name \in ManualNames, n \in TextChunks,
          o \in {"ok", "index_error"} :
          \E S \in {add_text_document(name, n, o)} :
              /\ \A h \in Handles : Len(S.st[h]) <= MaxIndex
              /\ store' = S.st
              /\ documents' = S.docs
              /\ last' = [NoCall EXCEPT !.op = "add_text_document",
                                        !.ret = S.ret,
                                        !.files = <<name>>]
              /\ UNCHANGED <<rag_system, embeddings, vectorstore, qa_chain,
                             persist_dir, app_vars>>

\* ----------------------------------------------------------------- query
\* Similarity of a chunk to a question: the chunks of the source the question
\* is about score above all others.
Score(q, c) == IF c.source = Topic(q) THEN 2 ELSE 1

Min(a, b) == IF a <= b THEN a ELSE b

\* The retriever's similarity search, k = 3: the chunks of a collection by
\* descending score, equal scores in insertion order, cut to k.
similarity_search(content, q) ==
    LET hi     == SelectSeq(content, LAMBDA c : Score(q, c) = 2)
        lo     == SelectSeq(content, LAMBDA c : Score(q, c) = 1)
        ranked == hi \o lo
    IN  SubSeq(ranked, 1, Min(RetrieverK, Len(ranked)))

Result(answer, sources, counted, retrieved, generated, raised) ==
    [answer |-> answer, sources |-> sources, counted |-> counted,
     retrieved |-> retrieved, generated |-> generated, raised |-> raised]

\* The body of the try of query_knowledge_base.  fault names the call that
\* raises, if one does; a missing vectorstore makes count() raise too.
\* counted, retrieved, generated: the index was counted, the retriever (and
\* embedder) ran, the generator ran.
query_try(q, fault) ==
    IF qa_chain = None
    THEN Result("not_initialized", <<>>, FALSE, FALSE, FALSE, FALSE)
    ELSE IF vectorstore = None
    THEN Result("", <<>>, FALSE, FALSE, FALSE, TRUE)
    ELSE IF fault = "count"
    THEN Result("", <<>>, TRUE, FALSE, FALSE, TRUE)
    ELSE IF count(vectorstore) = 0
    THEN Result("no_documents", <<>>, TRUE, FALSE, FALSE, FALSE)
    ELSE IF fault = "retrieve"
    THEN Result("", <<>>, TRUE, TRUE, FALSE, TRUE)
    ELSE IF fault = "generate"
    THEN Result("", <<>>, TRUE, TRUE, TRUE, TRUE)
    ELSE Result("answer", similarity_search(store[qa_chain], q),
                TRUE, TRUE, TRUE, FALSE)

\* The try without its except clause: an exception reaches the caller.
query_knowledge_base_uncaught(q, fault) == query_try(q, fault)

\* The query without the count() == 0 test.
query_knowledge_base_unguarded(q, fault) ==
    LET r == query_try(q, fault)
    IN  IF r.answer = "no_documents"
        THEN Result("answer", similarity_search(store[qa_chain], q),
                    TRUE, TRUE, TRUE, FALSE)
        ELSE IF r.raised
        THEN [r EXCEPT !.answer = "error", !.sources = <<>>, !.raised = FALSE]
        ELSE r

\* query_knowledge_base(question): except Exception turns whatever was raised
\* into an error answer with no source documents.
query_knowledge_base(q, fault) ==
    LET r == query_try(q, fault)
    IN  IF r.raised
        THEN [r EXCEPT !.answer = "error", !.sources = <<>>, !.raised = FALSE]
        ELSE r

QueryKnowledgeBase ==
    /\ rag_system = "RAGSystem"
    /\ \E q \in Questions, fault \in QueryFaults :
          \* faults of calls that are not made are not varied
          /\ (qa_chain = None \/ vectorstore = None) => fault = "none"
          /\ (vectorstore # None /\ count(vectorstore) = 0)
                => fault \in {"none", "count"}
          /\ \E r \in {query_knowledge_base(q, fault)} :
                 last' = [NoCall EXCEPT !.op = "query_knowledge_base", !.q = q,
                                     !.fault = fault,
                                     !.answer = r.answer, !.sources = r.sources,
                                     !.counted = r.counted,
                                     !.retrieved = r.retrieved,
                                     !.generated = r.generated,
                                     !.raised = r.raised]
    /\ UNCHANGED <<rag_system, embeddings, vectorstore, qa_chain, documents,
                   store, persist_dir, app_vars>>

\* ----------------------------------------------------------------- clear
\* clear_knowledge_base.  reset: the outcome of vectorstore._client.reset();
\* rm1: of the rmtree of the persist directory; o1: of setup_fresh_vectorstore;
\* o2: of the second setup_fresh_vectorstore, in the except clause.
\* Returns True (1) or False (0); w is the index it leaves, again whether the
\* except clause ran.
\* The first part of clear_knowledge_base, up to time.sleep(1): close the
\* current connection.  reset() empties the database and the vectorstore is
\* dropped; if reset() raises, the error is ignored and the assignment after
\* it is skipped.
clear_reset(W0, reset) ==
    IF W0.vs # None /\ reset = "ok"
    THEN World(None, [W0.st EXCEPT ![W0.vs] = <<>>], W0.dir)
    ELSE W0

\* The rest of clear_knowledge_base, after the sleep: remove the directory
\* and set up a fresh vectorstore, with the retry of the except clause.
clear_rebuild(W1, rm1, o1, o2) ==
    LET \* try to remove the directory; PermissionError is only warned about
        W2 == IF W1.dir # None /\ rm1 = "ok" THEN [W1 EXCEPT !.dir = None] ELSE W1
        failed == W1.dir # None /\ rm1 = "OSError"
        fresh  == setup_fresh_vectorstore(W2, qa_chain, o1)
        again  == setup_fresh_vectorstore(IF failed THEN W2 ELSE fresh.w,
                                          qa_chain, o2)
    IN  IF ~failed /\ ~fresh.raised
        THEN [w |-> fresh.w, docs |-> <<>>, ret |-> 1]
        ELSE [w |-> again.w, docs |-> <<>>, ret |-> 0]

clear_knowledge_base(reset, rm1, o1, o2) ==
    clear_rebuild(clear_reset(World(vectorstore, store, persist_dir), reset),
                  rm1, o1, o2)

ClearKnowledgeBase ==
    /\ rag_system = "RAGSystem"
    /\ \E reset \in CallOutcomes, rm1 \in RmOutcomes, o1 \in FreshOutcomes,
          o2 \in FreshOutcomes :
          \* outcomes of calls that are not made are not varied
          /\ vectorstore = None => reset = "ok"
          /\ persist_dir = None => rm1 = "ok"
          /\ rm1 = "OSError" => o1 = "ok"
          /\ (persist_dir = None \/ rm1 = "ok") => o1 # "rmtree_raises"
          /\ o1 = "chroma_raises" => o2 # "rmtree_raises"
          /\ \E c \in {clear_knowledge_base(reset, rm1, o1, o2)} :
              /\ c.ret = 1 => o2 = "ok"
              /\ vectorstore' = c.w.vs
              /\ documents' = c.docs
              /\ persist_dir' = c.w.dir
              /\ store' = Collect(c.w.st, c.w.vs, qa_chain, c.w.dir)
              /\ last' = [NoCall EXCEPT !.op = "clear_knowledge_base",
                                        !.ret = c.ret]
    /\ UNCHANGED <<rag_system, embeddings, qa_chain, app_vars>>

Next ==
    \/ Construct
    \/ ProcessDocuments
    \/ AddTextDocument
    \/ QueryKnowledgeBase
    \/ ClearKnowledgeBase

Spec == Init /\ [][Next]_vars

\* -------------------------------------------- the loader, type by type
\* process_documents called with files of every kind of declared type: the
\* three the documentation names, the Word 97 one, and one of no loader.
DeclaredFiles == {"a.txt", "b.pdf", "c.exe", "d.doc", "e.docx"}

DeclaredBatches ==
    {<<f>> : f \in DeclaredFiles}
        \cup {<<f, g>> : <<f, g>> \in {p \in DeclaredFiles \X DeclaredFiles : p[1] # p[2]}}

LoadDeclared == \E files \in DeclaredBatches : ProcessBatch(files)

LoaderNext ==
    \/ Construct
    \/ LoadDeclared

LoaderSpec == Init /\ [][LoaderNext]_vars

\* ------------------------------------------------- the script runs of app.py
\* Streamlit runs main() from top to bottom once per user event: the sidebar
\* (uploader, buttons), then initialize_systems, then process_uploaded_files.
\* One action is one run.

\* The value of st.file_uploader: some of the files, each once, in the order
\* they were picked in, or nothing.
UploadLists ==
    {<<>>} \cup {<<f>> : f \in Uploads}
           \cup {<<f, g>> : <<f, g>> \in {p \in Uploads \X Uploads : p[1] # p[2]}}

\* The API key field of the sidebar: empty, or a key.
GoogleKeys == {"", "key"}

\* initialize_systems that constructs a RAGSystem whenever a key is entered.
initialize_systems_rebuilding(rs, google_key) == google_key # ""

\* initialize_systems, the RAG part: RAGSystem(google_key) is constructed
\* when a key is entered and the session holds no RAGSystem.  TRUE when the
\* constructor is called.
initialize_systems(rs, google_key) == google_key # "" /\ rs = "None"

\* The Clear button that forgets to reset processed_files.
clear_button_remembering(c, processed) ==
    [w |-> c.w, docs |-> c.docs, processed |-> processed]

\* The Clear Knowledge Base button of setup_sidebar: clear_knowledge_base(),
\* whose result is not looked at, then processed_files = [].
clear_button(c, processed) ==
    [w |-> c.w, docs |-> c.docs, processed |-> <<>>]

\* process_uploaded_files(uploaded_files), the session holding a RAGSystem:
\* when the names differ from processed_files, process_documents gets the
\* whole list, and the names are recorded if it returns more than 0.
\* called: process_documents was called.
process_uploaded_files(W, docs, processed, files, outs) ==
    IF files # <<>> /\ files # processed
    THEN LET S == process_loop([st |-> W.st, docs |-> docs, count |-> 0, temp |-> 0],
                               W.vs, files, outs)
         IN  [st |-> S.st, docs |-> S.docs,
              processed |-> IF S.count > 0 THEN files ELSE processed,
              called |-> TRUE, ret |-> S.count]
    ELSE [st |-> W.st, docs |-> docs, processed |-> processed,
          called |-> FALSE, ret |-> 0]

\* The outcomes of the files of a run: none is varied for a call that is not
\* made, no loader is called for a type load_document does not know, and a
\* failure of the index stands for one of the loader (both add nothing, and
\* a run does not record the temporary files).
FileOutcomesOf(files, called) ==
    {outs \in [1..Len(files) -> FileOutcomes] :
        \A i \in 1..Len(files) :
           /\ ~called => outs[i] = "ok"
           /\ called => IF file_extension(files[i]) \in Supported
                        THEN outs[i] # "load_error"
                        ELSE outs[i] = "load_error"}

\* What a run records: the list process_documents was given (none if it was
\* not called), what it returned, the files nothing failed for.
RunRecord(op, p, files, outs) ==
    [NoCall EXCEPT !.op = op,
                   !.ret = p.ret,
                   !.files = IF p.called THEN files ELSE <<>>,
                   !.good = IF p.called
                            THEN [i \in 1..Len(files) |-> outs[i] = "ok"]
                            ELSE <<>>]

\* A run of main() in which initialize_systems constructs a RAGSystem (a key
\* is entered and the session holds none yet); if that fails the run stops, and
\* otherwise process_uploaded_files follows in the same run.
\* (Values used more than once are bound with \E over a singleton.)
MainFirst ==
    /\ {google_key \in GoogleKeys :
           initialize_systems(rag_system, google_key)} # {}
    /\ \E up \in UploadLists, emb \in CallOutcomes, fresh \in FreshOutcomes,
          qa \in CallOutcomes :
          \* outcomes of calls that are not made are not varied
          /\ persist_dir = None => fresh # "rmtree_raises"
          /\ emb = "raise" => (fresh = "ok" /\ qa = "ok")
          /\ fresh # "ok" => qa = "ok"
          /\ \E r \in {setup_fresh_vectorstore(World(None, store, persist_dir),
                                                None, fresh)} :
             \E W \in {IF emb = "ok" THEN r.w ELSE World(None, store, persist_dir)} :
             \E ok \in {emb = "ok" /\ ~r.raised /\ qa = "ok"} :
             \E outs \in FileOutcomesOf(up, ok /\ up # <<>> /\ up # processed_files) :
             \E p \in {IF ok
                       THEN process_uploaded_files(W, <<>>, processed_files, up, outs)
                       ELSE [st |-> W.st, docs |-> <<>>,
                             processed |-> processed_files,
                             called |-> FALSE, ret |-> 0]} :
                /\ \A h \in Handles : Len(p.st[h]) <= MaxIndex
                /\ rag_system' = (IF ok THEN "RAGSystem" ELSE "None")
                /\ embeddings' = ok
                /\ vectorstore' = (IF ok THEN W.vs ELSE None)
                /\ qa_chain' = (IF ok THEN W.vs ELSE None)
                /\ documents' = p.docs
                /\ persist_dir' = W.dir
                /\ store' = Collect(p.st, IF ok THEN W.vs ELSE None, None, W.dir)
                /\ uploaded_files' = up
                /\ processed_files' = p.processed
                /\ last' = RunRecord("main_first", p, up, outs)
    /\ UNCHANGED <<peer, pc, chat_vars>>

\* A run of main() after a change of the uploader, or after an event that
\* changes nothing here: process_uploaded_files(uploaded_files).
MainRerun ==
    /\ rag_system = "RAGSystem"
    \* some key (here: any) makes initialize_systems construct nothing
    /\ {google_key \in GoogleKeys :
           ~initialize_systems(rag_system, google_key)} # {}
    /\ \E up \in UploadLists :
       \E outs \in FileOutcomesOf(up, up # <<>> /\ up # processed_files) :
       \E p \in {process_uploaded_files(World(vectorstore, store, persist_dir),
                                        documents, processed_files, up, outs)} :
          /\ \A h \in Handles : Len(p.st[h]) <= MaxIndex
          /\ store' = p.st
          /\ documents' = p.docs
          /\ uploaded_files' = up
          /\ processed_files' = p.processed
          /\ last' = RunRecord("main_rerun", p, up, outs)
    /\ UNCHANGED <<rag_system, embeddings, vectorstore, qa_chain, persist_dir,
                   peer, pc, chat_vars>>

\* The run of main() after a click on Clear Knowledge Base: the button's
\* handler in setup_sidebar, then process_uploaded_files with what the
\* uploader still holds.
MainClear ==
    /\ rag_system = "RAGSystem"
    \* some key (here: any) makes initialize_systems construct nothing
    /\ {google_key \in GoogleKeys :
           ~initialize_systems(rag_system, google_key)} # {}
    /\ \E reset \in CallOutcomes, rm1 \in RmOutcomes, o1 \in FreshOutcomes,
          o2 \in FreshOutcomes :
          \* outcomes of calls that are not made are not varied
          /\ vectorstore = None => reset = "ok"
          /\ persist_dir = None => rm1 = "ok"
          /\ rm1 = "OSError" => o1 = "ok"
          /\ (persist_dir = None \/ rm1 = "ok") => o1 # "rmtree_raises"
          /\ o1 = "chroma_raises" => o2 # "rmtree_raises"
          /\ \E c \in {clear_knowledge_base(reset, rm1, o1, o2)} :
             \E b \in {clear_button(c, processed_files)} :
             \E outs \in FileOutcomesOf(uploaded_files,
                                        /\ uploaded_files # <<>>
                                        /\ uploaded_files # b.processed) :
             \E p \in {process_uploaded_files(b.w, b.docs, b.processed,
                                              uploaded_files, outs)} :
                /\ c.ret = 1 => o2 = "ok"
                /\ \A h \in Handles : Len(p.st[h]) <= MaxIndex
                /\ vectorstore' = b.w.vs
                /\ documents' = p.docs
                /\ persist_dir' = b.w.dir
                /\ store' = Collect(p.st, b.w.vs, qa_chain, b.w.dir)
                /\ processed_files' = p.processed
                \* cleared: clear_knowledge_base returned True
                /\ last' = [RunRecord("main_clear", p, uploaded_files, outs)
                               EXCEPT !.cleared = (c.ret = 1)]
    /\ UNCHANGED <<rag_system, embeddings, qa_chain, uploaded_files, peer, pc,
                   chat_vars>>

main ==
    \/ MainFirst
    \/ MainRerun
    \/ MainClear

AppSpec == Init /\ [][main]_vars

\* ------------------------------------------- the chat and the voice loop
\* The runs of main() in which the form is submitted, a voice button is
\* clicked or the listening loop reruns the script.

\* What the microphone set-up of initialize_systems does when it is tried.
MicOutcomes == {"ok", "test_fails", "test_raises", "init_raises"}

\* What listen_for_speech(continuous=True) returns: None (written ""), a
\* blank text, a question.
Utterances == {"", " ", "qa"}

\* The event a run answers: none (a rerun), the form's Ask, Start Voice
\* Question, Stop Listening.
Clicks == {"none", "ask", "start", "stop"}

Message(role, content) == [role |-> role, content |-> content]

\* initialize_systems, the voice part: VoiceHandler() and test_microphone()
\* when the box is ticked and the session holds no handler yet.
initialize_voice(vh, ve, use_voice, mic) ==
    IF use_voice /\ vh = "None"
    THEN CASE mic = "ok"          -> [handler |-> "VoiceHandler", enabled |-> TRUE]
           [] mic = "test_fails"  -> [handler |-> "VoiceHandler", enabled |-> ve]
           [] mic = "test_raises" -> [handler |-> "VoiceHandler", enabled |-> FALSE]
           [] OTHER               -> [handler |-> "None", enabled |-> FALSE]
    ELSE [handler |-> vh, enabled |-> ve]

\* handle_query that appends the user's message ahead of the blank test.
handle_query_logging_blank(C, rs, question, via, fault) ==
    LET call == [q |-> question, via |-> via, listening |-> C.listening]
        D    == [C EXCEPT !.asked = Append(@, call),
                          !.messages = Append(@, Message("user", question))]
        r    == query_knowledge_base(question, fault)
    IN  IF strip(question) = ""
        THEN D
        ELSE IF rs = "RAGSystem"
        THEN [D EXCEPT !.messages =
                 Append(@, Message("assistant",
                                   IF r.raised THEN "sorry" ELSE r.answer))]
        ELSE D

\* handle_query(question, tts_method).  C: the log, the listening flag and
\* the calls of the run so far; rs: session_state.rag_system.  A blank
\* question is warned about.  Otherwise the user's message is appended, and
\* with a RAGSystem the assistant's: the answer of query_knowledge_base, or
\* the apology of the except clause.  (Text-to-speech changes nothing here,
\* its errors are caught.)
handle_query(C, rs, question, via, fault) ==
    LET call == [q |-> question, via |-> via, listening |-> C.listening]
        D    == [C EXCEPT !.asked = Append(@, call)]
        r    == query_knowledge_base(question, fault)
    IN  IF strip(question) = ""
        THEN D
        ELSE IF rs = "RAGSystem"
        THEN [D EXCEPT !.messages =
                 @ \o <<Message("user", question),
                        Message("assistant",
                                IF r.raised THEN "sorry" ELSE r.answer)>>]
        ELSE [D EXCEPT !.messages = Append(@, Message("user", question))]

\* handle_voice_input(): the text heard, or None (written "") when nothing
\* or only blanks were heard or there is no voice system.
handle_voice_input(vh, ve, heard) ==
    IF vh # "None" /\ ve /\ strip(heard) # "" THEN heard ELSE ""

\* The voice part of main() that handles the question with the flag still set.
voice_section_still_listening(C, rs, vh, ve, on, click, heard, fault) ==
    IF ~on
    THEN C
    ELSE IF C.listening
    THEN IF click = "stop"
         THEN [C EXCEPT !.listening = FALSE]
         ELSE LET voice_q == handle_voice_input(vh, ve, heard)
                  H == [C EXCEPT !.listened = TRUE, !.heard = voice_q]
              IN  IF strip(voice_q) # ""
                  THEN handle_query(H, rs, voice_q, "voice", fault)
                  ELSE H
    ELSE IF click = "start"
    THEN [C EXCEPT !.listening = TRUE]
    ELSE C

\* The voice part of main().  on: use_voice and voice_enabled and has_docs.
\* Listening: Stop Listening clears the flag; otherwise handle_voice_input
\* is called, and a non-blank text clears the flag and then goes to
\* handle_query; every branch ends in st.rerun().  Not listening: Start Voice
\* Question sets the flag.
voice_section(C, rs, vh, ve, on, click, heard, fault) ==
    IF ~on
    THEN C
    ELSE IF C.listening
    THEN IF click = "stop"
         THEN [C EXCEPT !.listening = FALSE]
         ELSE LET voice_q == handle_voice_input(vh, ve, heard)
                  H == [C EXCEPT !.listened = TRUE, !.heard = voice_q]
              IN  IF strip(voice_q) # ""
                  THEN handle_query([H EXCEPT !.listening = FALSE], rs,
                                    voice_q, "voice", fault)
                  ELSE H
    ELSE IF click = "start"
    THEN [C EXCEPT !.listening = TRUE]
    ELSE C

\* The form of main(): Ask with a non-empty text, documents being loaded.
ask_form(C, rs, has_docs, click, question, fault) ==
    IF click = "ask" /\ question # "" /\ has_docs
    THEN handle_query(C, rs, question, "form", fault)
    ELSE C

\* The faults a call of query_knowledge_base can meet in this state.
QueryFaultsOf(called) ==
    IF ~called \/ qa_chain = None \/ vectorstore = None
    THEN {"none"}
    ELSE IF count(vectorstore) = 0
    THEN {"none", "count"}
    ELSE QueryFaults

\* A run of main() in a session that holds a RAGSystem and whose uploader
\* holds what was processed already: initialize_systems (the voice part),
\* process_uploaded_files (which finds nothing new), the form, the voice part.
MainChat ==
    /\ rag_system = "RAGSystem"
    \* some key (here: any) makes initialize_systems construct nothing
    /\ {google_key \in GoogleKeys :
           ~initialize_systems(rag_system, google_key)} # {}
    /\ uploaded_files = <<>> \/ uploaded_files = processed_files
    /\ \E use_voice \in BOOLEAN, mic \in MicOutcomes, click \in Clicks,
          question \in {""} \cup Questions, heard \in Utterances :
       \E v \in {initialize_voice(voice_handler, voice_enabled, use_voice, mic)} :
       \E has_docs \in {get_knowledge_base_stats.total_documents > 0} :
       \E on \in {use_voice /\ v.enabled /\ has_docs} :
          \* inputs of steps that are not taken are not varied; a button can
          \* be clicked only where it is shown
          /\ ~(use_voice /\ voice_handler = "None") => mic = "ok"
          /\ click # "ask" => question = ""
          /\ click = "ask" => has_docs
          /\ click = "stop" => (on /\ listening)
          /\ click = "start" => (on /\ ~listening)
          /\ ~(on /\ listening /\ click # "stop") => heard = ""
          /\ \E fq \in QueryFaultsOf(click = "ask" /\ strip(question) # ""),
                fv \in QueryFaultsOf(strip(heard) # "") :
             \E C \in {voice_section(
                         ask_form([messages |-> messages, listening |-> listening,
                                   asked |-> <<>>, listened |-> FALSE,
                                   heard |-> ""],
                                  rag_system, has_docs, click, question, fq),
                         rag_system, v.handler, v.enabled, on, click, heard, fv)} :
                /\ Len(C.messages) <= MaxMessages
                /\ messages' = C.messages
                /\ listening' = C.listening
                /\ voice_handler' = v.handler
                /\ voice_enabled' = v.enabled
                /\ last' = [NoCall EXCEPT !.op = "main_chat",
                                          !.click = click,
                                          !.asked = C.asked,
                                          !.listened = C.listened,
                                          !.heard = C.heard]
    /\ UNCHANGED <<rag_system, embeddings, vectorstore, qa_chain, documents,
                   store, persist_dir, uploaded_files, processed_files, peer, pc>>

ChatNext ==
    \/ MainFirst
    \/ MainChat

ChatSpec == Init /\ [][ChatNext]_vars

\* ------------------------------------------------------- two sessions
\* Streamlit runs the script of every browser session in a thread of its own;
\* each session keeps its own RAGSystem in st.session_state, and every
\* RAGSystem is built on persist_directory = "./chroma_db".  This session is
\* modelled in full, with clear_knowledge_base in its two parts around
\* time.sleep(1), where the threads of other sessions run; the second
\* session by what its calls do to the directory and to its own collection,
\* for its calls in which nothing but setup_fresh_vectorstore fails.

\* clear_knowledge_base up to the sleep.
ClearBegin ==
    /\ pc = "idle"
    /\ rag_system = "RAGSystem"
    /\ \E reset \in CallOutcomes :
          /\ vectorstore = None => reset = "ok"
          /\ \E W1 \in {clear_reset(World(vectorstore, store, persist_dir), reset)} :
                /\ vectorstore' = W1.vs
                /\ store' = W1.st
    /\ documents' = <<>>
    /\ pc' = "sleeping"
    /\ last' = [NoCall EXCEPT !.op = "sleep"]
    /\ UNCHANGED <<rag_system, embeddings, qa_chain, persist_dir,
                   uploaded_files, processed_files, peer, chat_vars>>

\* clear_knowledge_base after the sleep.
ClearFinish ==
    /\ pc = "sleeping"
    /\ \E rm1 \in RmOutcomes, o1 \in FreshOutcomes, o2 \in FreshOutcomes :
          \* outcomes of calls that are not made are not varied
          /\ persist_dir = None => rm1 = "ok"
          /\ rm1 = "OSError" => o1 = "ok"
          /\ (persist_dir = None \/ rm1 = "ok") => o1 # "rmtree_raises"
          /\ o1 = "chroma_raises" => o2 # "rmtree_raises"
          /\ \E c \in {clear_rebuild(World(vectorstore, store, persist_dir),
                                      rm1, o1, o2)} :
              /\ c.ret = 1 => o2 = "ok"
              /\ vectorstore' = c.w.vs
              /\ documents' = c.docs
              /\ persist_dir' = c.w.dir
              /\ store' = Collect(c.w.st, c.w.vs, qa_chain, c.w.dir)
              /\ last' = [NoCall EXCEPT !.op = "clear_knowledge_base",
                                        !.ret = c.ret]
    /\ pc' = "idle"
    /\ UNCHANGED <<rag_system, embeddings, qa_chain, uploaded_files,
                   processed_files, peer, chat_vars>>

\* setup_fresh_vectorstore as the second session runs it: on the same
\* directory, with a collection of its own.  dir: what ./chroma_db holds.
peer_setup_fresh_vectorstore(dir, o) ==
    IF dir # None /\ o = "rmtree_raises"
    THEN [dir |-> dir, raised |-> TRUE]
    ELSE IF o = "chroma_raises"
    THEN [dir |-> None, raised |-> TRUE]
    ELSE [dir |-> PeerDir, raised |-> FALSE]

\* initialize_systems in the second session: RAGSystem(google_key).
PeerConstruct ==
    /\ ~peer.rag
    /\ \E o \in FreshOutcomes :
          /\ persist_dir = None => o # "rmtree_raises"
          /\ \E r \in {peer_setup_fresh_vectorstore(persist_dir, o)} :
                /\ persist_dir' = r.dir
                /\ store' = Collect(store, vectorstore, qa_chain, r.dir)
                /\ peer' = [rag |-> ~r.raised, index |-> <<>>]
                /\ last' = [NoCall EXCEPT !.op = "peer_construct",
                                          !.ret = IF r.raised THEN 0 ELSE 1]
    /\ UNCHANGED <<rag_system, embeddings, vectorstore, qa_chain, documents,
                   uploaded_files, processed_files, pc, chat_vars>>

\* process_documents([b.pdf]) in the second session.
PeerIngest ==
    /\ peer.rag
    /\ Len(peer.index) < MaxIndex
    /\ peer' = [peer EXCEPT !.index = @ \o ChunksOf("b.pdf", SplitCount("b.pdf"))]
    /\ last' = [NoCall EXCEPT !.op = "peer_process_documents", !.ret = 1]
    /\ UNCHANGED <<rag_system, embeddings, vectorstore, qa_chain, documents,
                   store, persist_dir, uploaded_files, processed_files, pc,
                   chat_vars>>

\* clear_knowledge_base in the second session.
PeerClear ==
    /\ peer.rag
    /\ \E r \in {peer_setup_fresh_vectorstore(None, "ok")} :
          /\ persist_dir' = r.dir
          /\ store' = Collect(store, vectorstore, qa_chain, r.dir)
    /\ peer' = [peer EXCEPT !.index = <<>>]
    /\ last' = [NoCall EXCEPT !.op = "peer_clear_knowledge_base", !.ret = 1]
    /\ UNCHANGED <<rag_system, embeddings, vectorstore, qa_chain, documents,
                   uploaded_files, processed_files, pc, chat_vars>>

SessionsNext ==
    \/ pc = "idle" /\ Construct
    \/ pc = "idle" /\ ProcessDocuments
    \/ ClearBegin
    \/ ClearFinish
    \/ PeerConstruct
    \/ PeerIngest
    \/ PeerClear

SessionsSpec == Init /\ [][SessionsNext]_vars

\* ================================================================ claims
IsQuery   == last.op = "query_knowledge_base"
IsClear   == last.op = "clear_knowledge_base"
IsProcess == last.op = "process_documents"

\* C1: a query against an index that counts zero chunks returns the fixed
\* "no documents" answer with no source documents, and neither the retriever
\* (embedder) nor the generator is called.
C1_EmptyIndexShortCircuits ==
    (IsQuery /\ vectorstore # None /\ count(vectorstore) = 0 /\ last.fault = "none")
        => /\ last.answer = "no_documents"
           /\ last.sources = <<>>
           /\ ~last.retrieved
           /\ ~last.generated

\* An empty index was queried after a clear, while the collection the QA
\* chain was built on still holds chunks.
C1_Witness ==
    /\ IsQuery /\ last.fault = "none" /\ last.answer = "no_documents"
    /\ vectorstore # None /\ count(vectorstore) = 0
    /\ qa_chain # vectorstore /\ store[qa_chain] # <<>>

\* C2: query_knowledge_base never raises; whatever is raised while counting,
\* retrieving or generating (a missing vectorstore after a failed clear
\* included) comes back as an error answer with no source documents.
C2_QueryNeverRaises ==
    IsQuery => /\ ~last.raised
               /\ (last.fault # "none" \/ vectorstore = None)
                     => (last.answer = "error" /\ last.sources = <<>>)

\* A query after a clear that left no vectorstore returned the error answer.
C2_Witness ==
    IsQuery /\ vectorstore = None /\ last.answer = "error" /\ ~last.raised

\* C3 (as claimed): a blank question gets a validation result, and neither the
\* index nor the retriever nor the generator is touched (stated for the calls
\* in which nothing in the environment fails).
C3_BlankQuestionRejected ==
    (IsQuery /\ strip(last.q) = "" /\ last.fault = "none")
        => /\ last.answer = "validation_error"
           /\ ~last.counted
           /\ ~last.retrieved
           /\ ~last.generated

\* The files of a batch that get through load, split and index: nothing in
\* the environment fails, the type is one the loader knows, the text yields
\* chunks, and there is a vectorstore to add them to.
Completed(files, good, vs) ==
    {i \in 1..Len(files) : /\ good[i]
                            /\ file_extension(files[i]) \in Supported
                            /\ SplitCount(files[i]) > 0
                            /\ vs # None}

\* Their chunks, in batch order.
RECURSIVE CompletedChunks(_, _, _, _)
CompletedChunks(files, good, vs, i) ==
    IF i > Len(files)
    THEN <<>>
    ELSE (IF i \in Completed(files, good, vs)
          THEN ChunksOf(files[i], SplitCount(files[i]))
          ELSE <<>>) \o CompletedChunks(files, good, vs, i + 1)

IndexContent(vs, st) == IF vs = None THEN <<>> ELSE st[vs]

\* C4: process_documents skips a file whose load, split or index step fails,
\* still processes every other file of the batch, and returns the number of
\* files that got through all three steps.
C4_BadFileSkipped ==
    [][last'.op = "process_documents"
         => LET fs == last'.files
                g  == last'.good
            IN  /\ last'.ret = Cardinality(Completed(fs, g, vectorstore))
                /\ IndexContent(vectorstore', store')
                     = IndexContent(vectorstore, store)
                         \o CompletedChunks(fs, g, vectorstore, 1)
                /\ documents' = documents \o CompletedChunks(fs, g, vectorstore, 1)]_vars

\* Two files, the first failing: 1 is returned and the stats show one source.
C4_Witness ==
    /\ IsProcess /\ Len(last.files) = 2 /\ last.good = <<FALSE, TRUE>>
    /\ last.ret = 1
    /\ Cardinality(get_knowledge_base_stats.sources) = 1

\* C5 (as claimed): after clear_knowledge_base the stats count no document.
C5_ClearLeavesNoDocuments ==
    IsClear => get_knowledge_base_stats.total_documents = 0

\* C6 (as claimed): after clear_knowledge_base the session holds a usable
\* index: a vectorstore, on the storage of the persist directory.
C6_ClearLeavesUsableIndex ==
    IsClear => (vectorstore # None /\ persist_dir = vectorstore)

\* C7 (as claimed): a clear leaves the index and the bookkeeping both empty or
\* both as they were.
C7_ClearAllOrNothing ==
    [][last'.op = "clear_knowledge_base"
         => \/ /\ documents' = <<>>
               /\ IndexContent(vectorstore', store') = <<>>
            \/ /\ documents' = documents
               /\ IndexContent(vectorstore', store') = IndexContent(vectorstore, store)]_vars

\* C8 (as claimed): an answered query cites what the similarity search finds
\* in the current index, the one ingestion writes to and count() reads.
C8_QueryReadsCurrentIndex ==
    (IsQuery /\ last.answer = "answer")
        => last.sources = similarity_search(store[vectorstore], last.q)

\* C9: one file of N chunks ingested into an empty knowledge base leaves
\* total_documents = N and sources = {file name}.
C9_StatsAfterOneFile ==
    [][(/\ last'.op = "process_documents"
        /\ Len(last'.files) = 1
        /\ last'.ret = 1
        /\ documents = <<>>
        /\ IndexContent(vectorstore, store) = <<>>)
         => /\ IndexContent(vectorstore', store')
                 = ChunksOf(last'.files[1], SplitCount(last'.files[1]))
            /\ Len(IndexContent(vectorstore', store')) = SplitCount(last'.files[1])
            /\ SourcesOf(documents') = {last'.files[1]}]_vars

\* a.txt alone was ingested: the stats count its chunks and name it.
C9_Witness ==
    /\ IsProcess /\ last.files = <<"a.txt">> /\ last.ret = 1
    /\ get_knowledge_base_stats = [total_documents |-> 2,
                                   sources |-> {"a.txt"}]

\* C10: a successful construction leaves an empty index and empty
\* bookkeeping, whatever was persisted at the path.
C10_ConstructionStartsFresh ==
    (last.op = "construct" /\ last.ret = 1)
        => /\ vectorstore # None
           /\ count(vectorstore) = 0
           /\ documents = <<>>

\* Construction succeeded over a persisted index that held chunks.
C10_Witness ==
    /\ last.op = "construct" /\ last.ret = 1 /\ last.sources # <<>>
    /\ vectorstore # None /\ count(vectorstore) = 0

\* C11 (as claimed): once constructed, the orchestrator holds embeddings, a
\* vectorstore and a QA chain in every state, whatever ingest, query or clear
\* did.
C11_ReadyStaysReady ==
    rag_system = "RAGSystem"
        => (embeddings /\ vectorstore # None /\ qa_chain # None)

\* The last n elements of a sequence.
Suffix(s, n) == SubSeq(s, Len(s) - n + 1, Len(s))

\* C12: the run of a click on Clear Knowledge Base discards processed_files,
\* so that process_documents is given the whole list the uploader holds once
\* more, also when that list had been processed before; the files that get
\* through are indexed and recorded again.
C12_ClearForgetsProcessedFiles ==
    [][(last'.op = "main_clear" /\ uploaded_files # <<>>)
         => /\ last'.files = uploaded_files
            /\ \E cc \in {CompletedChunks(last'.files, last'.good, vectorstore', 1)} :
               \E ic \in {IndexContent(vectorstore', store')} :
                  /\ Len(ic) >= Len(cc)
                  /\ Suffix(ic, Len(cc)) = cc
                  /\ documents' = cc
            /\ processed_files' = (IF last'.ret > 0 THEN uploaded_files
                                   ELSE <<>>)]_vars

\* After a clear the uploaded list got through again: the collection the QA
\* chain was built on still holds the chunks of the first ingest, the fresh
\* one those of the second.
C12_Witness ==
    /\ last.op = "main_clear" /\ last.ret = Len(last.files)
    /\ processed_files = uploaded_files /\ uploaded_files # <<>>
    /\ vectorstore # None /\ qa_chain # vectorstore
    /\ store[qa_chain] = store[vectorstore] /\ store[vectorstore] # <<>>

\* The chunks of a source in a list of chunks.
NumFrom(name, content) == Len(SelectSeq(content, LAMBDA c : c.source = name))

\* The types the loader is documented to accept.
DeclaredTypes == {"pdf", "txt", "docx"}

\* C13 (as claimed): process_documents counts and indexes the files of type
\* pdf, txt and docx only: a file of any other type adds no chunk and is not
\* counted, a file of one of the three for which nothing fails adds its chunks.
C13_LoaderAcceptsDeclaredTypes ==
    [][last'.op = "process_documents"
         => \E fs \in {last'.files} :
            \E before \in {IndexContent(vectorstore, store)} :
            \E after \in {IndexContent(vectorstore', store')} :
               /\ last'.ret
                     <= Cardinality({i \in 1..Len(fs) :
                                       file_extension(fs[i]) \in DeclaredTypes})
               /\ \A i \in 1..Len(fs) :
                     IF file_extension(fs[i]) \in DeclaredTypes
                     THEN (last'.good[i] /\ vectorstore # None)
                             => NumFrom(fs[i], after)
                                  = NumFrom(fs[i], before) + SplitCount(fs[i])
                     ELSE NumFrom(fs[i], after) = NumFrom(fs[i], before)]_vars

\* C14: add_text_document returns True or False (its except clause takes
\* whatever is raised); True exactly when the chunks of the text were appended, under the given name, to
\* the index and to the bookkeeping; with False both are as they were.
C14_AddTextAllOrNothing ==
    [][last'.op = "add_text_document"
         => \E before \in {IndexContent(vectorstore, store)} :
            \E after \in {IndexContent(vectorstore', store')} :
               /\ last'.ret \in {0, 1}
               /\ last'.ret = 1
                     => \E n \in TextChunks \ {0} :
                           /\ after = before \o ChunksOf(last'.files[1], n)
                           /\ documents' = documents \o ChunksOf(last'.files[1], n)
               /\ last'.ret = 0
                     => (after = before /\ documents' = documents)
               /\ (after # before \/ documents' # documents) => last'.ret = 1]_vars

\* A text was added to an index that held a file: True, and the chunk is the
\* last one of the index and of the bookkeeping.
C14_Witness ==
    /\ last.op = "add_text_document" /\ last.ret = 1
    /\ vectorstore # None /\ count(vectorstore) = 2
    /\ store[vectorstore][2].source = "Manual Entry"
    /\ Len(documents) = 2 /\ documents[2].source = "Manual Entry"

\* The calls of the second session that change a knowledge base.
PeerMutations == {"peer_process_documents", "peer_clear_knowledge_base"}

\* C15 (as claimed): while a clear_knowledge_base of this session is in
\* flight, between dropping the old index and installing the fresh one, no
\* ingest or clear of another session takes effect on the index storage.
C15_MutationsSerialized ==
    [][(pc = "sleeping" /\ last'.op \in PeerMutations)
          => (persist_dir' = persist_dir /\ store' = store)]_vars

\* The chunks this session has in ./chroma_db.
StoredFor(vs, dir, st) == IF vs # None /\ dir = vs THEN st[vs] ELSE <<>>

\* C16 (as claimed): a construction, ingest or clear of the second session
\* leaves the chunks stored for this session, those it counts and those its
\* retriever reads as they were.
C16_SessionsIsolated ==
    [][last'.op \in PeerMutations \cup {"peer_construct"}
          => /\ StoredFor(vectorstore', persist_dir', store')
                  = StoredFor(vectorstore, persist_dir, store)
             /\ IndexContent(vectorstore', store') = IndexContent(vectorstore, store)
             /\ IndexContent(qa_chain', store') = IndexContent(qa_chain, store)]_vars

\* C17 (as claimed): an answered query against an index of n chunks cites
\* min(3, n) chunks of that index, by descending similarity.
C17_CitesTopK ==
    (IsQuery /\ last.answer = "answer")
        => /\ Len(last.sources) = Min(RetrieverK, count(vectorstore))
           /\ \A i \in 1..Len(last.sources) :
                 /\ \E j \in 1..count(vectorstore) :
                       store[vectorstore][j] = last.sources[i]
                 /\ \A j \in i..Len(last.sources) :
                       Score(last.q, last.sources[i]) >= Score(last.q, last.sources[j])

\* What count() gives, 0 standing for an index that is not there.
Counted(vs, st) == Len(IndexContent(vs, st))

\* C19: an ingest adds to count() the number of chunks of what got through,
\* whether or not the same chunks are indexed already, and nothing but
\* clear_knowledge_base makes count() smaller.
C19_IngestAppends ==
    [][\E before \in {Counted(vectorstore, store)} :
       \E after \in {Counted(vectorstore', store')} :
          /\ last'.op = "process_documents"
                => after = before + Len(CompletedChunks(last'.files, last'.good,
                                                        vectorstore, 1))
          /\ (last'.op = "add_text_document" /\ last'.ret = 1)
                => \E n \in TextChunks \ {0} : after = before + n
          /\ last'.op # "clear_knowledge_base" => after >= before]_vars

\* b.pdf was ingested into an index that held its chunk already: the index
\* holds the chunk twice.
C19_Witness ==
    /\ IsProcess /\ last.files = <<"b.pdf">> /\ last.ret = 1
    /\ vectorstore # None /\ count(vectorstore) = 2
    /\ store[vectorstore][1] = store[vectorstore][2]

\* The elements of a sequence.
Range(s) == {s[i] : i \in 1..Len(s)}

\* C20 (as claimed): in a run that handles no clear, process_documents is
\* given no file that processed_files records as processed since the last
\* clear.
C20_FilesProcessedOnce ==
    [][last'.op = "main_rerun"
          => Range(last'.files) \cap Range(processed_files) = {}]_vars

\* C21 (as claimed): the stats of a constructed orchestrator agree: the index
\* counts as many chunks as self.documents holds, and sources is empty
\* exactly when the count is 0.
C21_StatsAgree ==
    rag_system = "RAGSystem"
        => /\ get_knowledge_base_stats.total_documents = Len(documents)
           /\ (get_knowledge_base_stats.sources = {})
                 <=> (get_knowledge_base_stats.total_documents = 0)

\* C22 (as claimed): when process_documents returns, every temporary file it
\* wrote has been deleted, whether or not the file's processing succeeded.
C22_TempFilesDeleted == IsProcess => last.temp = 0

\* C23 (as claimed): at the end of a run of main() in which Clear Knowledge
\* Base was clicked and clear_knowledge_base returned True, the stats count
\* 0 chunks, whatever the uploader holds.
C23_ClearedRunEndsEmpty ==
    (last.op = "main_clear" /\ last.cleared)
        => get_knowledge_base_stats.total_documents = 0

\* The calls of handle_query a run made for what the microphone heard, and
\* those with a question that is not blank.
VoiceCalls(r)    == SelectSeq(r.asked, LAMBDA c : c.via = "voice")
NonBlankCalls(r) == SelectSeq(r.asked, LAMBDA c : strip(c.q) # "")

\* C24: in a run of main() that recognises a non-blank utterance,
\* handle_query is called exactly once for it, with that text and with
\* listening already False, and the run ends with listening False; a run that
\* recognises nothing calls handle_query for no utterance; and the run after
\* one that recognised an utterance does not listen.
C24_VoiceQueryOnce ==
    [][last'.op = "main_chat"
          => /\ IF last'.heard # ""
                THEN /\ Len(VoiceCalls(last')) = 1
                     /\ VoiceCalls(last')[1].q = last'.heard
                     /\ ~VoiceCalls(last')[1].listening
                     /\ ~listening'
                ELSE VoiceCalls(last') = <<>>
             /\ (last.op = "main_chat" /\ last.heard # "") => ~last'.listened]_vars

C24_Witness ==
    /\ last.op = "main_chat"
    /\ last.heard = "qa"
    /\ Len(messages) >= 2
    /\ messages[Len(messages) - 1] = Message("user", "qa")
    /\ ~listening

\* C25: the chat log alternates user and assistant messages, starting with a
\* user message; a run of main() appends, for every handle_query call with a
\* non-blank question, the user's message and then one assistant message, and
\* nothing for a blank question.
C25_ChatAlternates ==
    [][/\ \A i \in 1..Len(messages') :
             messages'[i].role = (IF i % 2 = 1 THEN "user" ELSE "assistant")
       /\ last'.op = "main_chat"
             => /\ Len(messages') = Len(messages) + 2 * Len(NonBlankCalls(last'))
                /\ SubSeq(messages', 1, Len(messages)) = messages
                /\ \A j \in 1..Len(NonBlankCalls(last')) :
                      messages'[Len(messages) + 2 * j - 1]
                         = Message("user", NonBlankCalls(last')[j].q)]_vars

C25_Witness ==
    /\ last.op = "main_chat"
    /\ Len(messages) = 4
    /\ \E i \in 1..Len(last.asked) : strip(last.asked[i].q) = ""
    /\ \E i \in 1..Len(last.asked) : strip(last.asked[i].q) # ""

\* C26: once the session holds a RAGSystem, no run of main() constructs
\* another, whatever key is entered: the session keeps its RAGSystem, and a
\* run without a click on Clear leaves the vectorstore in place with every
\* chunk of the index and of self.documents where it was.
C26_ConstructedOnce ==
    [][rag_system = "RAGSystem"
          => /\ rag_system' = "RAGSystem"
             /\ last'.op # "main_first"
             /\ last'.op = "main_rerun"
                   => /\ vectorstore' = vectorstore
                      /\ qa_chain' = qa_chain
                      /\ Len(documents') >= Len(documents)
                      /\ SubSeq(documents', 1, Len(documents)) = documents
                      /\ \A h \in Handles :
                            /\ Len(store'[h]) >= Len(store[h])
                            /\ SubSeq(store'[h], 1, Len(store[h])) = store[h]]_vars

C26_Witness ==
    /\ rag_system = "RAGSystem"
    /\ last.op = "main_rerun"
    /\ last.files = <<>>
    /\ vectorstore # None
    /\ documents # <<>>
    /\ count(vectorstore) = Len(documents)

====
